---- MODULE Spec2Model ----
(***************************************************************************)
(* State machine of shapefile-uploader/src/App.jsx: the React state of the *)
(* App component (selected files, selected colour, layer collection,       *)
(* active selection, status notification) and the asynchronous upload      *)
(* (uploadShapefile) with its two suspension points and its auto-hide      *)
(* timer.  Every handler runs to completion on the single UI task; an      *)
(* upload is a process that is suspended at `await fetch(...)` and at      *)
(* `await response.json()` and keeps the closure of the render in which it *)
(* was invoked.                                                            *)
(***************************************************************************)
EXTENDS Integers, Sequences, FiniteSets, TLC

(***************************************************************************)
(* Bounds of the model.                                                    *)
(***************************************************************************)
MaxUploads == 2

\* the largest number of features of a layer
MaxFeatures == 2

\* the largest number of files picked at once in the file dialog
MaxFiles == 3

Uploads == 1..MaxUploads

(***************************************************************************)
(* JavaScript values.                                                      *)
(***************************************************************************)
Null == [isNull |-> TRUE]

IsNull(v) == "isNull" \in DOMAIN v

\* useState('#3388ff') and one other value of the colour picker
DefaultColor == "#3388ff"

Colors == {DefaultColor, "#ff0000"}

(***************************************************************************)
(* Files.  A file is its name, a sequence of characters.                   *)
(***************************************************************************)
LowerOf == [c \in {"A", "B", "D", "F", "H", "P", "S", "X"} |->
              CASE c = "A" -> "a" [] c = "B" -> "b" [] c = "D" -> "d"
                [] c = "F" -> "f" [] c = "H" -> "h" [] c = "P" -> "p"
                [] c = "S" -> "s" [] c = "X" -> "x"]

toLowerCase(s) == [i \in 1..Len(s) |-> IF s[i] \in DOMAIN LowerOf THEN LowerOf[s[i]] ELSE s[i]]

\* name.split('.').pop(): the characters after the last dot, the whole name
\* when it has no dot
LastDot(s) == IF \E i \in 1..Len(s) : s[i] = "."
              THEN CHOOSE i \in 1..Len(s) : s[i] = "." /\ \A j \in (i+1)..Len(s) : s[j] # "."
              ELSE 0

splitPop(s) == SubSeq(s, LastDot(s) + 1, Len(s))

extensionOf(file) == toLowerCase(splitPop(file.name))

RelevantExtensions == {<<"s", "h", "p">>, <<"s", "h", "x">>, <<"d", "b", "f">>}

RECURSIVE collectFiles(_)
collectFiles(files) ==
  IF files = <<>> THEN <<>>
  ELSE LET rest == collectFiles(SubSeq(files, 1, Len(files) - 1))
           file == files[Len(files)]
       IN IF extensionOf(file) \in RelevantExtensions THEN Append(rest, file) ELSE rest

hasExtension(files, ext) == \E i \in 1..Len(files) : extensionOf(files[i]) = ext

getMissingFiles(hasShp, hasShx, hasDbf) ==
  (IF ~hasShp THEN <<".shp">> ELSE <<>>) \o
  (IF ~hasShx THEN <<".shx">> ELSE <<>>) \o
  (IF ~hasDbf THEN <<".dbf">> ELSE <<>>)

handleFilesResult(files) ==
  LET hasShp == hasExtension(files, <<"s", "h", "p">>)
      hasShx == hasExtension(files, <<"s", "h", "x">>)
      hasDbf == hasExtension(files, <<"d", "b", "f">>)
  IN [isComplete |-> hasShp /\ hasShx /\ hasDbf,
      missingFiles |-> getMissingFiles(hasShp, hasShx, hasDbf)]

File(name) == [name |-> name]

\* the file lists the user picks in the file dialog
FileInputs ==
  { << File(<<"a", ".", "s", "h", "p">>), File(<<"a", ".", "s", "h", "x">>),
       File(<<"a", ".", "d", "b", "f">>), File(<<"a", ".", "p", "n", "g">>) >>,
    << File(<<"b", ".", "S", "H", "P">>), File(<<"s", "h", "p">>) >> }

(***************************************************************************)
(* Responses of the conversion service.                                    *)
(***************************************************************************)
Feature1 == [id |-> "f1", properties |-> [name |-> "one"]]

Feature2 == [id |-> "f2", properties |-> [name |-> "two"]]

\* a feature without an id and with a null attribute mapping
Feature3 == [properties |-> Null]

GeoA == [type |-> "FeatureCollection", features |-> <<Feature1, Feature2>>]

GeoB == [type |-> "FeatureCollection", features |-> <<Feature3>>]

ServiceError == "unsupported projection"

\* a string value: the text of a JSON document, or text that is not JSON
JsonText(v) == [string |-> [json |-> v]]

Garbage == [string |-> [text |-> "not json"]]

IsString(v) == "string" \in DOMAIN v

\* the values response.json() can resolve to
JsonValues ==
  { GeoA, GeoB,
    [type |-> "FeatureCollection", features |-> <<Feature1>>, error |-> ""],
    [error |-> ServiceError],
    JsonText(GeoA), Garbage, Null }

\* a response body: text that response.json() parses to a value, or not
Bodies == {[parses |-> TRUE, data |-> v] : v \in JsonValues} \cup {[parses |-> FALSE]}

\* messages of the errors raised by the platform
FetchErrorMessage == "Failed to fetch"

SyntaxErrorMessage == "Unexpected token in JSON"

TypeErrorMessage == "Cannot read properties of null (reading 'error')"

FallbackMessage == "Failed to upload shapefile"

\* data.error: the property lookup on an object or on a string
errorField(data) ==
  IF ~IsString(data) /\ "error" \in DOMAIN data
  THEN [present |-> TRUE, value |-> data.error]
  ELSE [present |-> FALSE]

Truthy(e) == e.present /\ e.value # ""

JSONParses(data) == "json" \in DOMAIN data.string

JSONParse(data) == data.string.json

(***************************************************************************)
(* Notifications.                                                          *)
(***************************************************************************)
NoStatus == [text |-> "", type |-> "", visible |-> FALSE]

LoadingStatus == [text |-> "Uploading shapefile...", type |-> "loading", visible |-> TRUE]

SuccessStatus == [text |-> "Shapefile loaded successfully!", type |-> "success", visible |-> TRUE]

ErrorStatus(message) == [text |-> "Error: " \o message, type |-> "error", visible |-> TRUE]

hideStatus(prev) == [prev EXCEPT !.visible = FALSE]

(***************************************************************************)
(* State.                                                                  *)
(***************************************************************************)
VARIABLES
  selectedFiles,    \* useState([])
  selectedColor,    \* useState('#3388ff')
  layers,           \* useState([])
  activeFeature,    \* useState(null)
  activeProperties, \* useState(null)
  statusMessage,    \* useState({ text: '', type: '', visible: false })
  uploads,          \* the invocations of uploadShapefile, in invocation order
  timers,           \* the pending setTimeout callbacks, in scheduling order
  clock,            \* the last value Date.now() returned
  elapsed,          \* time has certainly advanced since that value was read
  statusOwner,      \* history: the upload that produced the notification shown
  last,             \* history: the most recent completion of an upload
  landed,           \* history: the uploads that appended a layer, in order
  lastClick         \* history: the handlers run for the most recent click

vars == <<selectedFiles, selectedColor, layers, activeFeature, activeProperties,
          statusMessage, uploads, timers, clock, elapsed, statusOwner, last,
          landed, lastClick>>

selectionVars == <<activeFeature, activeProperties, lastClick>>

clockVars == <<clock, elapsed>>

\* an invocation that has not happened yet.  formData is the request body, held
\* until the continuation has run; layersLength and selectedColor are what
\* addGeoJsonLayer reads from the closure of the invoking render, held until
\* the continuation has run
IdleUpload ==
  [pc |-> "idle", formData |-> <<>>, selectedColor |-> DefaultColor,
   layersLength |-> 0, ok |-> FALSE, emitted |-> <<>>, stamp |-> 0]

\* no upload has completed yet.  discarded is the selection a successful
\* completion replaced and its upload had not sent
NoCompletion ==
  [upload |-> 0, emitted |-> <<>>, outcome |-> "none", reason |-> "", discarded |-> <<>>]

\* an invocation whose timer has fired: nothing refers to its closure any more
DoneUpload == [IdleUpload EXCEPT !.pc = "done"]

Init ==
  /\ selectedFiles = <<>>
  /\ selectedColor = DefaultColor
  /\ layers = <<>>
  /\ activeFeature = Null
  /\ activeProperties = Null
  /\ statusMessage = NoStatus
  /\ uploads = [u \in Uploads |-> IdleUpload]
  /\ timers = <<>>
  /\ clock = 0
  /\ elapsed = FALSE
  /\ statusOwner = 0
  /\ last = NoCompletion
  /\ landed = <<>>
  /\ lastClick = Null

(***************************************************************************)
(* File selection and colour picker.                                       *)
(***************************************************************************)
handleFiles(files) ==
  /\ selectedFiles' = collectFiles(files)
  /\ UNCHANGED <<selectedColor, layers, selectionVars, statusMessage, uploads,
                 timers, clockVars, statusOwner, last, landed>>

setSelectedColor(color) ==
  /\ selectedColor' = color
  /\ UNCHANGED <<selectedFiles, layers, selectionVars, statusMessage, uploads,
                 timers, clockVars, statusOwner, last, landed>>

(***************************************************************************)
(* Layer store.                                                            *)
(***************************************************************************)
\* the values Date.now() can return: the millisecond of the previous read or
\* a later one (ids are compared for equality only)
DateNow == IF elapsed \/ clock = 0 THEN {clock + 1} ELSE {clock, clock + 1}

\* the new layer put in front of the collection
addGeoJsonLayerPrepend(c, prevLayers, geojsonData, now) ==
  <<[id |-> now, name |-> "Layer " \o ToString(c.layersLength + 1),
     color |-> c.selectedColor, data |-> geojsonData, visible |-> TRUE]>> \o prevLayers

\* addGeoJsonLayer run in the closure c of the render that invoked the upload;
\* prevLayers is the collection the state updater receives
addGeoJsonLayer(c, prevLayers, geojsonData, now) ==
  LET layerName == "Layer " \o ToString(c.layersLength + 1)
      newLayer == [id |-> now, name |-> layerName, color |-> c.selectedColor,
                   data |-> geojsonData, visible |-> TRUE]
  IN Append(prevLayers, newLayer)

setLayerVisibility(prevLayers, layerId, visible) ==
  [i \in 1..Len(prevLayers) |->
     IF prevLayers[i].id = layerId THEN [prevLayers[i] EXCEPT !.visible = visible]
     ELSE prevLayers[i]]

\* ids a caller can pass: those Date.now() can produce and one it never does
LayerIds == 0..MaxUploads

\* a toggle that also drops the selection when it hides the selection's layer
toggleLayerVisibilityDeselects(layerId, visible) ==
  /\ layers' = setLayerVisibility(layers, layerId, visible)
  /\ activeFeature' = IF ~visible /\ ~IsNull(activeFeature) /\ activeFeature.layerId = layerId
                      THEN Null ELSE activeFeature
  /\ activeProperties' = IF ~visible /\ ~IsNull(activeFeature) /\ activeFeature.layerId = layerId
                         THEN Null ELSE activeProperties
  /\ UNCHANGED <<selectedFiles, selectedColor, lastClick, statusMessage,
                 uploads, timers, clockVars, statusOwner, last, landed>>

\* setLayers(prev => prev.map(...)): nothing but the layer collection is written
toggleLayerVisibility(layerId, visible) ==
  /\ layers' = setLayerVisibility(layers, layerId, visible)
  /\ UNCHANGED <<selectedFiles, selectedColor, selectionVars, statusMessage,
                 uploads, timers, clockVars, statusOwner, last, landed>>

(***************************************************************************)
(* Upload.                                                                 *)
(***************************************************************************)
\* the React state the continuation of an upload writes
UiState == [statusMessage |-> statusMessage, layers |-> layers, selectedFiles |-> selectedFiles]

Thrown(st, emitted, message) ==
  [st |-> st, emitted |-> emitted, threw |-> TRUE, message |-> message, added |-> FALSE,
   geojsonData |-> Null]

\* the fallback text whatever the body says
failureMessageGeneric(data) == FallbackMessage

\* data.error || 'Failed to upload shapefile'
failureMessage(data) ==
  IF Truthy(errorField(data)) THEN errorField(data).value ELSE FallbackMessage

\* a success path that leaves the file selection as it is
resetSelectedFilesKeeps(prev) == prev

\* setSelectedFiles([]) of the success path
resetSelectedFiles(prev) == <<>>

\* the statements of the try block that follow `await response.json()`
afterJson(c, data, now, st) ==
  IF IsNull(data) THEN Thrown(st, <<>>, TypeErrorMessage)
  ELSE IF c.ok THEN
    IF Truthy(errorField(data)) THEN Thrown(st, <<>>, errorField(data).value)
    ELSE LET shown == [st EXCEPT !.statusMessage = SuccessStatus] IN
      IF IsString(data) /\ ~JSONParses(data) THEN Thrown(shown, <<"success">>, SyntaxErrorMessage)
      ELSE LET geojsonData == IF IsString(data) THEN JSONParse(data) ELSE data IN
        [st |-> [shown EXCEPT !.layers = addGeoJsonLayer(c, @, geojsonData, now),
                              !.selectedFiles = resetSelectedFiles(@)],
         emitted |-> <<"success">>, threw |-> FALSE, message |-> "", added |-> TRUE,
         geojsonData |-> geojsonData]
  ELSE Thrown(st, <<>>, failureMessage(data))

\* a catch block that also resets the file selection
catchErrorClearsFiles(r) ==
  IF r.threw
  THEN [r EXCEPT !.st.statusMessage = ErrorStatus(r.message), !.st.selectedFiles = <<>>,
                 !.emitted = Append(@, "error")]
  ELSE r

\* the catch block
catchError(r) ==
  IF r.threw
  THEN [r EXCEPT !.st.statusMessage = ErrorStatus(r.message), !.emitted = Append(@, "error")]
  ELSE r

\* the try block from `await response.json()` on, then catch
settle(c, body, now, st) ==
  catchError(IF body.parses THEN afterJson(c, body.data, now, st)
             ELSE Thrown(st, <<>>, SyntaxErrorMessage))

\* a finally block that schedules nothing
scheduleHideNever(pending, u) == pending

\* the finally block: setTimeout(..., 5000) adds the upload's callback to the
\* pending timers
scheduleHide(pending, u) == Append(pending, u)

\* the continuation has run: React state, history, and the finally block
Finish(u, r, now) ==
  /\ statusMessage' = r.st.statusMessage
  /\ layers' = r.st.layers
  /\ selectedFiles' = r.st.selectedFiles
  /\ landed' = IF r.added THEN Append(landed, [upload |-> u, color |-> uploads[u].selectedColor,
                                             data |-> r.geojsonData]) ELSE landed
  /\ clock' = IF r.added THEN now ELSE clock
  /\ elapsed' = IF r.added THEN FALSE ELSE elapsed
  /\ uploads' = [uploads EXCEPT ![u] = [IdleUpload EXCEPT
                                !.pc = "timer",
                                !.stamp = Len(landed')]]
  /\ last' = [upload |-> u, emitted |-> uploads[u].emitted \o r.emitted,
              outcome |-> IF r.threw THEN "Failed" ELSE "LayerAdded",
              reason |-> r.message,
              discarded |-> IF r.added /\ selectedFiles # uploads[u].formData
                            THEN selectedFiles ELSE <<>>]
  /\ timers' = scheduleHide(timers, u)
  /\ statusOwner' = u
  /\ UNCHANGED <<selectedColor, selectionVars>>

\* the synchronous part of uploadShapefile, up to `await fetch(...)`
uploadShapefile(u) ==
  /\ uploads[u].pc = "idle"
  /\ \A v \in 1..(u - 1) : uploads[v].pc # "idle"
  /\ statusMessage' = LoadingStatus
  /\ uploads' = [uploads EXCEPT ![u] = [IdleUpload EXCEPT !.pc = "fetch",
                                          !.formData = selectedFiles,
                                          !.selectedColor = selectedColor,
                                          !.layersLength = Len(layers),
                                          !.emitted = <<"loading">>]]
  /\ statusOwner' = u
  /\ UNCHANGED <<selectedFiles, selectedColor, layers, selectionVars, timers,
                 clockVars, last, landed>>

\* fetch resolves with a response of some status
fetchResolved(u, ok) ==
  /\ uploads[u].pc = "fetch"
  /\ uploads' = [uploads EXCEPT ![u].pc = "json", ![u].ok = ok]
  /\ UNCHANGED <<selectedFiles, selectedColor, layers, selectionVars, statusMessage,
                 timers, clockVars, statusOwner, last, landed>>

\* fetch rejects: catch, finally
fetchRejected(u) ==
  /\ uploads[u].pc = "fetch"
  /\ Finish(u, catchError(Thrown(UiState, <<>>, FetchErrorMessage)), clock)

\* response.json() settles: the rest of try, catch, finally
jsonSettled(u, body) ==
  /\ uploads[u].pc = "json"
  /\ \E now \in DateNow :
       Finish(u, settle(uploads[u], body, now, UiState), now)

\* the setTimeout callback of the finally block.  Callbacks of equal delay run
\* in scheduling order; 5 seconds after the completion that scheduled it, so
\* the clock has advanced unless Date.now() was read again since then
hideTimer(u) ==
  /\ timers # <<>>
  /\ Head(timers) = u
  /\ timers' = Tail(timers)
  /\ statusMessage' = hideStatus(statusMessage)
  /\ elapsed' = (elapsed \/ uploads[u].stamp = Len(landed))
  /\ uploads' = [uploads EXCEPT ![u] = DoneUpload]
  /\ UNCHANGED <<selectedFiles, selectedColor, layers, selectionVars, clock,
                 statusOwner, last, landed>>

(***************************************************************************)
(* Selection.                                                              *)
(***************************************************************************)
\* the features of a layer's data
featuresOf(layer) == IF "features" \in DOMAIN layer.data THEN layer.data.features ELSE <<>>

\* Math.random().toString(36).substring(7)
RandomTokens == {"r1", "r2"}

featureIdOf(feature, random) == IF "id" \in DOMAIN feature THEN feature.id ELSE random

\* the event object the map widget hands to the click handlers
ClickEvent == [stopped |-> FALSE]

\* a stopPropagation that leaves the event as it is
stopPropagationNoop(e) == e

\* L.DomEvent.stopPropagation(e): the widget calls no further handler for an
\* event that is marked stopped
stopPropagation(e) == [e EXCEPT !.stopped = TRUE]

\* the selections the closure of a layer's click handler can hold: the handler
\* is bound when the layer is mounted, so it sees the selection of that render
SeenSelections ==
  {Null, activeFeature} \cup
  {[layerId |-> id, featureId |-> "f1"] : id \in 1..MaxUploads}

\* the new selection set first and the reset after it
activeFeatureUpdatesResetLast(seen, layerId, feature, random) ==
  <<[layerId |-> layerId, featureId |-> featureIdOf(feature, random)]>> \o
  (IF ~IsNull(seen) /\ seen.layerId # layerId THEN <<Null>> ELSE <<>>)

\* the values onFeatureClick passes to setActiveFeature, in order, when its
\* closure holds the selection `seen`
activeFeatureUpdates(seen, layerId, feature, random) ==
  (IF ~IsNull(seen) /\ seen.layerId # layerId THEN <<Null>> ELSE <<>>) \o
  <<[layerId |-> layerId, featureId |-> featureIdOf(feature, random)]>>

\* the selection state after onFeatureClick: the updates of one handler are
\* applied in order, the last one stands
selectionAfterFeatureClick(seen, layerId, feature, random) ==
  LET updates == activeFeatureUpdates(seen, layerId, feature, random) IN
  [activeFeature |-> updates[Len(updates)], activeProperties |-> feature.properties]

\* the selection state after onMapClick
selectionAfterMapClick == [activeFeature |-> Null, activeProperties |-> Null]

\* a click on feature k of the rendered layer at position i: the layer's click
\* handler (stopPropagation, then onFeatureClick), then the map's click
\* handler unless the event was stopped; the random token is drawn only when
\* the feature has no id
onFeatureClick(i, k) ==
  /\ i \in 1..Len(layers)
  /\ layers[i].visible
  /\ k \in 1..Len(featuresOf(layers[i]))
  /\ \E random \in RandomTokens, seen \in SeenSelections :
       LET feature == featuresOf(layers[i])[k]
           e == stopPropagation(ClickEvent)
           clicked == selectionAfterFeatureClick(seen, layers[i].id, feature, random)
           final == IF e.stopped THEN clicked ELSE selectionAfterMapClick
       IN
       /\ "id" \in DOMAIN feature => random = "r1"
       /\ activeFeature' = final.activeFeature
       /\ activeProperties' = final.activeProperties
       /\ lastClick' = [layerId |-> layers[i].id, feature |-> feature,
                        onFeatureClick |-> TRUE, onMapClick |-> ~e.stopped]
  /\ UNCHANGED <<selectedFiles, selectedColor, layers, statusMessage, uploads,
                 timers, clockVars, statusOwner, last, landed>>

\* a click on the map's background
onMapClick ==
  /\ activeFeature' = selectionAfterMapClick.activeFeature
  /\ activeProperties' = selectionAfterMapClick.activeProperties
  /\ lastClick' = [layerId |-> Null, feature |-> Null, onFeatureClick |-> FALSE,
                   onMapClick |-> TRUE]
  /\ UNCHANGED <<selectedFiles, selectedColor, layers, statusMessage, uploads,
                 timers, clockVars, statusOwner, last, landed>>

(***************************************************************************)
(* Rendering.                                                              *)
(***************************************************************************)
\* fillOpacity is in tenths
getLayerStyle(isActive, color) ==
  IF isActive
  THEN [weight |-> 4, color |-> "#555", opacity |-> 1, fillColor |-> color, fillOpacity |-> 7]
  ELSE [weight |-> 2, color |-> color, opacity |-> 1, fillColor |-> color, fillOpacity |-> 3]

\* the isActive argument the style callback of a layer passes
isActiveLayer(layer) == ~IsNull(activeFeature) /\ activeFeature.layerId = layer.id

\* the features drawn with the style of an active feature, as <<layer position,
\* feature position>>
ActiveStyled ==
  {p \in (1..Len(layers)) \X (1..MaxFeatures) :
     /\ layers[p[1]].visible
     /\ p[2] <= Len(featuresOf(layers[p[1]]))
     /\ getLayerStyle(isActiveLayer(layers[p[1]]), layers[p[1]].color)
          = getLayerStyle(TRUE, layers[p[1]].color)}

\* positions of the layers that are rendered
RenderedLayers == {i \in 1..Len(layers) : layers[i].visible}

\* the inspector panel is rendered
inspectorShown == ~IsNull(activeProperties)

(***************************************************************************)
(* Specifications.  Spec is the upload coordinator: file selection, colour *)
(* choice and uploads under every response of the service.  SelectionSpec  *)
(* is the layer store and the selection controller over the layers that    *)
(* successful uploads append: visibility toggles and clicks.               *)
(***************************************************************************)
UploadFiles == {files \in FileInputs : Len(files) = 4}

GeoBodies == {[parses |-> TRUE, data |-> v] : v \in {GeoA, GeoB}}

Next ==
  \/ \E files \in UploadFiles : handleFiles(files)
  \/ \E color \in Colors : setSelectedColor(color)
  \/ \E u \in Uploads : uploadShapefile(u)
  \/ \E u \in Uploads, ok \in BOOLEAN : fetchResolved(u, ok)
  \/ \E u \in Uploads : fetchRejected(u)
  \/ \E u \in Uploads, body \in Bodies : jsonSettled(u, body)
  \/ \E u \in Uploads : hideTimer(u)

Spec == Init /\ [][Next]_vars

SelectionNext ==
  \/ \E u \in Uploads : uploadShapefile(u)
  \/ \E u \in Uploads : fetchResolved(u, TRUE)
  \/ \E u \in Uploads, body \in GeoBodies : jsonSettled(u, body)
  \/ \E u \in Uploads : hideTimer(u)
  \/ \E layerId \in LayerIds, visible \in BOOLEAN : toggleLayerVisibility(layerId, visible)
  \/ \E i \in 1..MaxUploads, k \in 1..MaxFeatures : onFeatureClick(i, k)
  \/ onMapClick

SelectionSpec == Init /\ [][SelectionNext]_vars

(***************************************************************************)
(* Properties.                                                             *)
(***************************************************************************)
\* a step in which the continuation of an upload runs to its finally block
Completes == Len(timers') = Len(timers) + 1

\* C1: the firing of an upload's auto-hide timer hides a notification only
\* when that upload produced the notification: whenever visible goes from
\* true to false, the timer that fired is the one of the notification's owner
C1_TimerHidesOnlyOwnNotification ==
  [][(statusMessage.visible /\ ~statusMessage'.visible)
       => (timers # <<>> /\ Head(timers) = statusOwner)]_vars

\* C2: every completed upload has emitted, after its loading notification,
\* exactly one terminal notification (success or error), and a success
\* notification only when it appended a layer
C2_ExactlyOneTerminalNotification ==
  last.upload # 0 =>
    /\ last.emitted \in {<<"loading", "success">>, <<"loading", "error">>}
    /\ (\E i \in 1..Len(last.emitted) : last.emitted[i] = "success")
         => last.outcome = "LayerAdded"

\* C3: the ids of the layers of the collection are pairwise distinct
C3_LayerIdsDistinct ==
  \A i, j \in 1..Len(layers) : i # j => layers[i].id # layers[j].id

\* C4: after N successful appends the collection has length N and its k-th
\* layer is named "Layer k"
C4_LayerNamesByOrdinal ==
  /\ Len(layers) = Len(landed)
  /\ \A k \in 1..Len(layers) : layers[k].name = "Layer " \o ToString(k)

\* C5: at most one feature of the whole collection is drawn with the active
\* style, and none when the selection is Idle
C5_AtMostOneActiveFeature ==
  /\ Cardinality(ActiveStyled) <= 1
  /\ IsNull(activeFeature) => ActiveStyled = {}

\* C6: toggleLayerVisibility(X, v) changes nothing but the visible field of
\* the one layer whose id is X: at most one layer changes, no layer with
\* another id changes, and no field other than visible changes
C6_ToggleChangesOnlyLayerX ==
  [][\A layerId \in LayerIds, visible \in BOOLEAN :
       toggleLayerVisibility(layerId, visible) =>
         /\ Len(layers') = Len(layers)
         /\ Cardinality({i \in 1..Len(layers) : layers'[i] # layers[i]}) <= 1
         /\ \A i \in 1..Len(layers) :
              /\ layers[i].id # layerId => layers'[i] = layers[i]
              /\ [layers'[i] EXCEPT !.visible = layers[i].visible] = layers[i]]_vars

\* C7: every successful upload has its layer in the collection, and the
\* layers are in the order in which the uploads completed
C7_AppendsLandInCompletionOrder ==
  /\ Len(layers) = Len(landed)
  /\ \A k \in 1..Len(layers) :
       layers[k].data = landed[k].data /\ layers[k].color = landed[k].color

\* two uploads, both successful, the second invoked completing first
C7_Witness ==
  /\ Len(landed) = 2
  /\ landed[1].upload = 2 /\ landed[2].upload = 1
  /\ layers[1].data = GeoB /\ layers[2].data = GeoA

\* C8: the completion of an upload whose outcome is Failed leaves the layer
\* collection and the selected files as they were
C8_FailedUploadLeavesLayersAndFiles ==
  [][(Completes /\ last'.outcome = "Failed")
       => (layers' = layers /\ selectedFiles' = selectedFiles)]_vars

\* a 200 response with an error field, with files selected and a layer loaded
C8_Witness ==
  /\ last.outcome = "Failed" /\ last.reason = ServiceError
  /\ statusMessage.type = "error"
  /\ Len(selectedFiles) = 3
  /\ Len(layers) = 1

\* C9: a successful completion appends exactly one layer at the end, visible,
\* with the normalized response body as data and the colour selected at that
\* moment, and clears the file selection
C9_AppendsLayerWithCurrentColor ==
  [][(Completes /\ last'.outcome = "LayerAdded") =>
       /\ Len(layers') = Len(layers) + 1
       /\ SubSeq(layers', 1, Len(layers)) = layers
       /\ layers'[Len(layers')].visible
       /\ layers'[Len(layers')].data = landed'[Len(landed')].data
       /\ layers'[Len(layers')].color = selectedColor
       /\ selectedFiles' = <<>>]_vars

\* the parsed body has an error field
carriesError(body) == body.parses /\ "error" \in DOMAIN body.data

\* C10: the reason of a Failed outcome is the body's error field when the
\* parsed body carries one, the fixed text when the status is not 2xx and the
\* body carries none, the failure's message on a transport failure; the error
\* notification's text is that reason
C10_ReasonAndTextAsClaimed ==
  [][/\ \A u \in Uploads : fetchRejected(u) =>
          last'.reason = FetchErrorMessage /\ statusMessage'.text = last'.reason
     /\ \A u \in Uploads, body \in Bodies :
          (jsonSettled(u, body) /\ last'.outcome = "Failed") =>
            /\ carriesError(body) => last'.reason = body.data.error
            /\ (~uploads[u].ok /\ ~carriesError(body)) => last'.reason = FallbackMessage
            /\ statusMessage'.text = last'.reason]_vars

\* the parsed body has a non-empty error field
carriesNonEmptyError(body) == carriesError(body) /\ body.data.error # ""

\* C10, amended: a parsed body with a non-empty error field makes the outcome
\* Failed with that field as reason; a non-2xx status with a body that parses
\* to a non-null value without a non-empty error field gives the fixed text; a
\* transport failure gives the failure's message; the error notification's
\* text is "Error: " followed by the reason
C10_ReasonAndText ==
  [][/\ \A u \in Uploads : (Completes /\ fetchRejected(u)) =>
          /\ last'.outcome = "Failed" /\ last'.reason = FetchErrorMessage
          /\ statusMessage' = [text |-> "Error: " \o last'.reason, type |-> "error",
                               visible |-> TRUE]
     /\ \A u \in Uploads, body \in Bodies : (Completes /\ jsonSettled(u, body)) =>
          /\ carriesNonEmptyError(body) =>
               last'.outcome = "Failed" /\ last'.reason = body.data.error
          /\ (~uploads[u].ok /\ body.parses /\ ~IsNull(body.data)
                /\ ~carriesNonEmptyError(body)) =>
               last'.outcome = "Failed" /\ last'.reason = FallbackMessage
          /\ last'.outcome = "Failed" =>
               statusMessage' = [text |-> "Error: " \o last'.reason, type |-> "error",
                                 visible |-> TRUE]]_vars

\* a non-2xx response whose body has no error field has just completed
C10_Witness ==
  /\ last.outcome = "Failed" /\ last.reason = "Failed to upload shapefile"
  /\ statusOwner = last.upload
  /\ statusMessage.text = "Error: Failed to upload shapefile"

\* C11: when the response body cannot be parsed (by response.json() under
\* either status, or by JSON.parse of a string body), the upload ends as Failed
\* with a generic message, not with the parser's message
C11_UnparsableBodyGenericMessage ==
  [][\A u \in Uploads, body \in Bodies :
       (/\ jsonSettled(u, body)
        /\ \/ ~body.parses
           \/ (uploads[u].ok /\ body.data = Garbage)) =>
         /\ last'.outcome = "Failed"
         /\ last'.reason # SyntaxErrorMessage
         /\ statusMessage'.text # "Error: " \o SyntaxErrorMessage]_vars

C13_FeatureClickContained ==
  (~IsNull(lastClick) /\ lastClick.onFeatureClick) =>
    /\ ~lastClick.onMapClick
    /\ ~IsNull(activeFeature)
    /\ activeFeature.layerId = lastClick.layerId

\* a feature without an id has been clicked
C13_Witness ==
  /\ ~IsNull(lastClick) /\ lastClick.onFeatureClick
  /\ ~IsNull(activeFeature)
  /\ activeFeature.featureId \in RandomTokens
  /\ \E i \in 1..Len(layers) : layers[i].id = activeFeature.layerId /\ layers[i].data = GeoB

\* C14: in every state the inspector panel is shown exactly when the selection
\* is Active, also after a click on a feature whose attribute mapping is null
C14_InspectorShownIffActive ==
  inspectorShown <=> ~IsNull(activeFeature)

(***************************************************************************)
(* Rendering of App and the effects of MapUpdater, as properties of a step. *)
(***************************************************************************)
\* the state hooks of App that the handlers write
appState ==
  <<selectedFiles, selectedColor, layers, activeFeature, activeProperties,
    statusMessage>>

\* App renders again when a setter has stored a different value
appRenders == appState' # appState

\* MapUpdater is defined in the body of App, so every render of App defines a
\* new component and the one rendered before is unmounted and the new one
\* mounted: its effects run after every render, whatever their dependencies
mapUpdaterMounts == appRenders

\* the fit-bounds effect of MapUpdater runs and finds a layer to fit
fitBoundsCalled == mapUpdaterMounts /\ Len(layers') > 0

\* C15: the bounds are recomputed in exactly the steps that append a layer; a
\* visibility toggle, a click or a notification change recomputes nothing
C15_FitBoundsExactlyOnAppend ==
  [][fitBoundsCalled <=> Len(layers') = Len(layers) + 1]_vars

(***************************************************************************)
(* File selection on its own: the user picks any list of at most MaxFiles  *)
(* files, again and again.                                                 *)
(***************************************************************************)
FileNames ==
  { <<"a", ".", "s", "h", "p">>, <<"a", ".", "s", "h", "x">>,
    <<"a", ".", "d", "b", "f">>, <<"b", ".", "S", "H", "P">>,
    <<"a", ".", "p", "n", "g">>, <<"s", "h", "p">> }

FileLists == UNION {[1..n -> {File(name) : name \in FileNames}] : n \in 0..MaxFiles}

FilesNext == \E files \in FileLists : handleFiles(files)

FilesSpec == Init /\ [][FilesNext]_vars

\* the extension of a file as its name spells it: the characters after the
\* last dot in lower case, nothing when the name has no dot
namedExtension(file) ==
  IF LastDot(file.name) = 0 THEN <<>>
  ELSE toLowerCase(SubSeq(file.name, LastDot(file.name) + 1, Len(file.name)))

hasShapefileExtension(file) == namedExtension(file) \in RelevantExtensions

\* C16: handleFiles stores exactly the files of its input, in input order,
\* whose name has an extension that is shp, shx or dbf in any case; a file
\* whose name has no dot is left out
C16_StoresFilesWithShapefileExtension ==
  [][\A files \in FileLists :
       handleFiles(files) => selectedFiles' = SelectSeq(files, hasShapefileExtension)]_vars

\* C17: handleFiles returns isComplete exactly when the classified files hold
\* a file of each of the extensions shp, shx and dbf, missingFiles lists
\* exactly the extensions that have none, and isComplete holds exactly when
\* missingFiles is empty
C17_CompleteIffEachExtensionPresent ==
  [][\A files \in FileLists :
       handleFiles(files) =>
         LET result == handleFilesResult(files)
             present(ext) == \E i \in 1..Len(selectedFiles') :
                               namedExtension(selectedFiles'[i]) = ext
             missing == { result.missingFiles[i] : i \in 1..Len(result.missingFiles) }
         IN /\ result.isComplete <=> \A ext \in RelevantExtensions : present(ext)
            /\ (".shp" \in missing) <=> ~present(<<"s", "h", "p">>)
            /\ (".shx" \in missing) <=> ~present(<<"s", "h", "x">>)
            /\ (".dbf" \in missing) <=> ~present(<<"d", "b", "f">>)
            /\ result.isComplete <=> result.missingFiles = <<>>]_vars

(***************************************************************************)
(* Progress of the uploads.  Every request the user starts is answered or  *)
(* fails, every body is read or fails to parse, and every timer fires; the *)
(* user is free to start an upload or not.                                 *)
(***************************************************************************)
LiveNext ==
  \/ \E u \in Uploads : uploadShapefile(u)
  \/ \E u \in Uploads, ok \in BOOLEAN : fetchResolved(u, ok)
  \/ \E u \in Uploads : fetchRejected(u)
  \/ \E u \in Uploads, body \in Bodies : jsonSettled(u, body)
  \/ \E u \in Uploads : hideTimer(u)

LiveFairness ==
  \A u \in Uploads :
    /\ WF_vars(fetchResolved(u, TRUE) \/ fetchResolved(u, FALSE) \/ fetchRejected(u))
    /\ WF_vars(\E body \in Bodies : jsonSettled(u, body))
    /\ WF_vars(hideTimer(u))

LiveSpec == Init /\ [][LiveNext]_vars /\ LiveFairness

\* the same steps without the assumption of progress: the uploads under every
\* response of the service, the selection of files and colours left alone
ResponsesSpec == Init /\ [][LiveNext]_vars

\* C18: every completion of an upload, success or failure, schedules its
\* auto-hide timer, and when the started uploads complete and the timers fire
\* the notification ends up hidden and stays hidden
C18_NotificationEventuallyHiddenForGood ==
  /\ [][\A u \in Uploads :
          (uploads[u].pc \in {"fetch", "json"} /\ uploads'[u].pc \notin {"fetch", "json"})
            => timers' = Append(timers, u)]_vars
  /\ <>[](~statusMessage.visible)

\* both uploads have completed, the later one with a failure, and all timers
\* have fired
C18_Witness ==
  /\ \A u \in Uploads : uploads[u] = DoneUpload
  /\ timers = <<>>
  /\ last.outcome = "Failed"
  /\ statusMessage.type = "error" /\ ~statusMessage.visible

\* C19: an upload sends the files selected when it was invoked, a selection
\* made later does not change what it sends, and its successful completion
\* empties the file selection whatever it is at that moment
C19_SendsInvokedSelectionAndClearsCurrent ==
  [][/\ \A u \in Uploads :
          /\ uploadShapefile(u) => uploads'[u].formData = selectedFiles
          /\ (uploads[u].pc \in {"fetch", "json"} /\ uploads'[u].pc \in {"fetch", "json"})
               => uploads'[u].formData = uploads[u].formData
     /\ (Completes /\ last'.outcome = "LayerAdded") => selectedFiles' = <<>>]_vars

\* the first upload was invoked, files were selected while it was in flight,
\* and its successful completion has discarded them; no other upload was
\* invoked, so they were never sent
C19_Witness ==
  /\ last.upload = 1 /\ last.outcome = "LayerAdded"
  /\ last.discarded # <<>>
  /\ selectedFiles = <<>>
  /\ \A u \in Uploads \ {1} : uploads[u].pc = "idle"

(***************************************************************************)
(* The layer list beside the rest of the interface: visibility toggles     *)
(* while files are selected, a notification is shown and a feature is      *)
(* selected.                                                               *)
(***************************************************************************)
ToggleNext ==
  \/ \E files \in UploadFiles : handleFiles(files)
  \/ \E u \in Uploads : uploadShapefile(u)
  \/ \E u \in Uploads : fetchResolved(u, TRUE)
  \/ \E u \in Uploads : jsonSettled(u, [parses |-> TRUE, data |-> GeoA])
  \/ \E u \in Uploads : hideTimer(u)
  \/ \E layerId \in LayerIds, visible \in BOOLEAN : toggleLayerVisibility(layerId, visible)
  \/ \E i \in 1..MaxUploads, k \in 1..MaxFeatures : onFeatureClick(i, k)

ToggleSpec == Init /\ [][ToggleNext]_vars

\* C20: a visibility toggle, the one step that changes layers and keeps their
\* number, leaves the active selection, the attributes of the inspector, the
\* selected files and the notification as they are, also when the toggled
\* layer is the one of the active selection
C20_ToggleLeavesSelectionFilesNotification ==
  [][(Len(layers') = Len(layers) /\ layers' # layers) =>
       /\ \E layerId \in LayerIds, visible \in BOOLEAN :
            layers' = setLayerVisibility(layers, layerId, visible)
       /\ activeFeature' = activeFeature
       /\ activeProperties' = activeProperties
       /\ inspectorShown' = inspectorShown
       /\ selectedFiles' = selectedFiles
       /\ statusMessage' = statusMessage]_vars

\* the layer of the active selection has been hidden: the selection is still
\* Active and the inspector still shows the attributes, while files are
\* selected and a notification is shown
C20_Witness ==
  /\ ~IsNull(activeFeature) /\ inspectorShown
  /\ activeProperties = Feature1.properties
  /\ \E i \in 1..Len(layers) : layers[i].id = activeFeature.layerId
  /\ \A i \in 1..Len(layers) : layers[i].id = activeFeature.layerId => ~layers[i].visible
  /\ selectedFiles # <<>>
  /\ statusMessage.visible

(***************************************************************************)
(* Two halves of Spec, each with one of the two inputs of an upload: the   *)
(* colour picker with the uploads, and the file selection with the uploads. *)
(***************************************************************************)
ColourNext ==
  \/ \E color \in Colors : setSelectedColor(color)
  \/ LiveNext

ColourSpec == Init /\ [][ColourNext]_vars

FilesUploadNext ==
  \/ \E files \in UploadFiles : handleFiles(files)
  \/ LiveNext

FilesUploadSpec == Init /\ [][FilesUploadNext]_vars

====
